---- MODULE Spec2Model ----
(***************************************************************************)
(* Model of pdf_extraction.pdf_extractor.PDFExtractor: the page selection  *)
(* parse_pages and the extraction pipeline extract_content, with the file  *)
(* system (a local document, the temporary files of downloads) it acts on. *)
(*                                                                         *)
(* Text is a sequence of one-character strings where the code looks into   *)
(* it (a page specification), and a sequence of string pieces where the    *)
(* code only concatenates it (an output, an error message).                *)
(***************************************************************************)
EXTENDS Integers, Sequences, FiniteSets, TLC

\* ------------------------------------------------------------- bounds
\* longest page specification, in characters
MaxLen == 4
\* largest total_pages handed to parse_pages
MaxTotal == 5
\* most pages of the document the pipeline works on
MaxDocPages == 2
\* calls of extract_content in one behaviour
MaxCalls == 2

\* ------------------------------------------------------------- text
Digits == {"0", "1", "2"}
Alphabet == Digits \cup {"-", "+", ",", " ", "x"}

DigitVal(c) == CASE c = "0" -> 0 [] c = "1" -> 1 [] c = "2" -> 2

\* all strings over Alphabet of at most n characters
Strings(n) == UNION {[1..k -> Alphabet] : k \in 0..n}

\* an Optional[str]: None, or a string
NoneStr == [isNone |-> TRUE, str |-> <<>>]
Str(s) == [isNone |-> FALSE, str |-> s]

\* Python truthiness of an Optional[str]: None and "" are falsy
Truthy(o) == ~o.isNone /\ o.str # <<>>

\* str.split(','): the pieces between the commas, "" gives [""]
RECURSIVE Split(_)
Split(s) ==
  IF \A i \in 1..Len(s) : s[i] # ","
  THEN <<s>>
  ELSE LET i == CHOOSE j \in 1..Len(s) : s[j] = "," /\ \A k \in 1..(j-1) : s[k] # ","
       IN <<SubSeq(s, 1, i-1)>> \o Split(SubSeq(s, i+1, Len(s)))

\* str.strip(): leading and trailing whitespace removed
RECURSIVE Strip(_)
Strip(s) ==
  IF s = <<>> THEN s
  ELSE IF Head(s) = " " THEN Strip(Tail(s))
  ELSE IF s[Len(s)] = " " THEN Strip(SubSeq(s, 1, Len(s)-1))
  ELSE s

\* value of a digit string, base 10
RECURSIVE DecVal(_)
DecVal(d) == IF d = <<>> THEN 0 ELSE 10 * DecVal(SubSeq(d, 1, Len(d)-1)) + DigitVal(d[Len(d)])

\* int(s): an optional sign, then one digit or more; anything else raises ValueError
int(s) ==
  LET t == Strip(s)
      signed == t # <<>> /\ Head(t) \in {"-", "+"}
      d == IF signed THEN Tail(t) ELSE t
  IN IF d # <<>> /\ \A i \in 1..Len(d) : d[i] \in Digits
     THEN [exc |-> "none", val |-> IF signed /\ Head(t) = "-" THEN 0 - DecVal(d) ELSE DecVal(d)]
     ELSE [exc |-> "ValueError", val |-> 0]

\* ------------------------------------------------------------- parse_pages
\* list(range(n))
Range(n) == [i \in 1..n |-> i - 1]

SetOf(q) == {q[i] : i \in 1..Len(q)}

\* sorted(S) of a set of integers
RECURSIVE Sorted(_)
Sorted(S) ==
  IF S = {} THEN <<>>
  ELSE LET m == CHOOSE x \in S : \A y \in S : x <= y
       IN <<m>> \o Sorted(S \ {m})

\* the return statement of parse_pages
MutSortedSet(pages) == pages
SortedSet(pages) == Sorted(SetOf(pages))

\* the index of a non-zero page number
MutPageIndex(page_num, total_pages) ==
  IF page_num < 0 THEN total_pages + page_num + 1 ELSE page_num
PageIndex(page_num, total_pages) ==
  IF page_num < 0 THEN total_pages + page_num ELSE page_num - 1

\* the exception a page number of zero raises
MutZeroError == "ZeroPageError"
ZeroError == "ValueError"

\* the try block of the loop for one part: what it raises, and the index it appends
TryPart(part, total_pages) ==
  LET n == int(Strip(part))
      idx == PageIndex(n.val, total_pages)
  IN IF n.exc # "none" THEN [exc |-> n.exc, keep |-> FALSE, idx |-> 0]
     ELSE IF n.val = 0 THEN [exc |-> ZeroError, keep |-> FALSE, idx |-> 0]
     ELSE [exc |-> "none", keep |-> 0 <= idx /\ idx < total_pages, idx |-> idx]

\* the loop over the parts, pages being the list built so far
RECURSIVE ParseLoop(_, _, _)
ParseLoop(parts, total_pages, pages) ==
  IF parts = <<>> THEN [exc |-> "none", pages |-> pages]
  ELSE IF Strip(Head(parts)) = <<>> THEN ParseLoop(Tail(parts), total_pages, pages)
  ELSE LET r == TryPart(Head(parts), total_pages)
       IN IF r.exc = "none"
          THEN ParseLoop(Tail(parts), total_pages,
                         IF r.keep THEN Append(pages, r.idx) ELSE pages)
          ELSE IF r.exc = "ValueError"
          THEN ParseLoop(Tail(parts), total_pages, pages)
          ELSE [exc |-> r.exc, pages |-> <<>>]

\* the guard of the early return
MutAllPages(pages_str) == pages_str.isNone
MutBlankIsAbsent(pages_str) == pages_str.isNone \/ Strip(pages_str.str) = <<>>
AllPages(pages_str) == ~Truthy(pages_str)

\* PDFExtractor.parse_pages: what it raises and the list it returns
MutParseFallback(pages_str, total_pages) ==
  LET r == ParseLoop(Split(pages_str.str), total_pages, <<>>)
  IN IF AllPages(pages_str) \/ r.pages = <<>>
     THEN [exc |-> "none", pages |-> Range(total_pages)]
     ELSE [exc |-> "none", pages |-> SortedSet(r.pages)]
parse_pages(pages_str, total_pages) ==
  IF AllPages(pages_str) THEN [exc |-> "none", pages |-> Range(total_pages)]
  ELSE LET r == ParseLoop(Split(pages_str.str), total_pages, <<>>)
       IN IF r.exc = "none" THEN [exc |-> "none", pages |-> SortedSet(r.pages)] ELSE r

\* ------------------------------------------------------------- paths and files
\* a path or URL, as urlparse and os.path.splitext see it; n numbers the temporary files
Path(scheme, netloc, stem, n, ext) ==
  [scheme |-> scheme, netloc |-> netloc, stem |-> stem, n |-> n, ext |-> ext]
None == Path("", "", "", 0 - 1, "")
EmptyPath == Path("", "", "", 0, "")
LocalPath(ext) == Path("", "", "/data/doc", 0, ext)
UrlPath(ext) == Path("http", "host", "/doc", 0, ext)
TempPath(n, suffix) == Path("", "", "/tmp/tmp", n, suffix)

\* the extensions of the document's name: a PDF, an image in upper case, none
Exts == {".pdf", ".PNG", ""}
Lower(ext) == IF ext = ".PNG" THEN ".png" ELSE ext

\* truthiness of a path value: None and "" are falsy
PathTruthy(p) == p # None /\ p # EmptyPath

\* the text of a path inside a message
PathStr(p) == <<p.scheme, p.netloc, p.stem, p.ext>>

is_url(path) == path.scheme # "" /\ path.netloc # ""

image_extensions == {".jpg", ".jpeg", ".png", ".gif", ".bmp", ".tiff", ".webp"}
MutNoLower(path) == path.ext \in image_extensions
is_image_file(path) == Lower(path.ext) \in image_extensions

\* the text layer of a page: none, whitespace only, text
PageTexts == {"", " \n", "Hello"}
StripText(t) == IF t = " \n" THEN "" ELSE t

\* a document: whether PdfReader / Image.open can read it, and its pages' text layers
Docs ==
  {[readable |-> TRUE, pages |-> p] : p \in UNION {[1..k -> PageTexts] : k \in 0..MaxDocPages}}
  \cup {[readable |-> FALSE, pages |-> <<>>]}
\* the file NamedTemporaryFile leaves before anything is written to it
EmptyFile == [readable |-> FALSE, pages |-> <<>>]

\* the page specifications the pipeline is called with
PageArgs ==
  {NoneStr, Str(<<>>), Str(<<"1">>), Str(<<"2", ",", "1">>), Str(<<"-", "1">>),
   Str(<<"0">>), Str(<<"x">>)}

VARIABLES
  pc,              \* position of the current call of extract_content ("idle": none)
  calls,           \* calls started so far
  fs,              \* the files on disk: a set of [path, data]
  doc,             \* the document behind the URL
  ext,             \* the extension of the document's name
  next_tmp,        \* number of the next temporary file name
  pdf_path, pages, \* the arguments of the call
  temp_file, local_path, is_scanned, total_pages, selected_pages,
  extracted_text,  \* the blocks of the pages extracted so far
  page_i,          \* position of the extraction loop in selected_pages
  exc,             \* the message of the exception in flight inside the try block
  pending,         \* the outcome the try/except has determined
  outcome,         \* the outcome the caller gets
  parsed,          \* the last result of parse_pages
  steps,           \* the stages this call has executed
  created,         \* temporary files this call has created
  unlinked,        \* successful os.unlink calls of this call
  unlink_failed    \* whether os.unlink raised in this call

\* concurrent invocations of extract_content
VARIABLES
  inv              \* the frame of every invocation: position, arguments and locals

\* the tool handlers of server.py and http_server.py
VARIABLES
  server,          \* which server this process runs: "stdio" or "http"
  tool,            \* the tool call being handled
  request_count,   \* http_server.request_count
  error_count      \* http_server.error_count

\* the session tracking of http_server.py
VARIABLES
  active_sessions,              \* session id -> tracking entry
  session_close_events,         \* session id -> the close event registered for it
  events_set,                   \* the close events that have been set
  conn,                         \* the frame of every SSE connection (handle_sse)
  now,                          \* the clock, in seconds
  next_check,                   \* when the sleep of the cleanup task ends
  zombie_sessions_force_closed,
  zombie_sessions_cleaned

conc_vars == <<inv>>
tool_vars == <<server, tool, request_count, error_count>>
sse_vars ==
  <<active_sessions, session_close_events, events_set, conn, now, next_check,
    zombie_sessions_force_closed, zombie_sessions_cleaned>>
other_vars == <<conc_vars, tool_vars, sse_vars>>
call_vars ==
  <<pc, calls, fs, doc, ext, next_tmp, pdf_path, pages, temp_file, local_path, is_scanned,
    total_pages, selected_pages, extracted_text, page_i, exc, pending, outcome, parsed,
    steps, created, unlinked, unlink_failed>>

vars == <<call_vars, other_vars>>

Exists(p) == \E f \in fs : f.path = p
\* what a reader finds at p; nothing readable where there is no file
Data(p) == IF Exists(p) THEN (CHOOSE f \in fs : f.path = p).data ELSE EmptyFile
Write(p, d) == {f \in fs : f.path # p} \cup {[path |-> p, data |-> d]}
Unlink(p) == {f \in fs : f.path # p}

NoOutcome == [kind |-> "none", value |-> <<>>]
Return(text) == [kind |-> "return", value |-> text]
Raise(msg) == [kind |-> "ValueError", value |-> msg]
NoParse == [exc |-> "none", pages |-> <<>>]

\* ------------------------------------------------------------- output text
DigitChar(d) ==
  CASE d = 0 -> "0" [] d = 1 -> "1" [] d = 2 -> "2" [] d = 3 -> "3" [] d = 4 -> "4"
    [] d = 5 -> "5" [] d = 6 -> "6" [] d = 7 -> "7" [] d = 8 -> "8" [] d = 9 -> "9"

\* str(n) of a natural number
RECURSIVE str(_)
str(n) == IF n < 10 THEN <<DigitChar(n)>> ELSE str(n \div 10) \o <<DigitChar(n % 10)>>

\* f"Page {page_num + 1}:\n{text}"
MutPageBlock(page_num, text) == <<"Page ">> \o str(page_num) \o <<":\n", text>>
PageBlock(page_num, text) == <<"Page ">> \o str(page_num + 1) \o <<":\n", text>>

\* "\n\n".join(blocks)
RECURSIVE Join(_)
Join(blocks) ==
  IF blocks = <<>> THEN <<>>
  ELSE IF Len(blocks) = 1 THEN blocks[1]
  ELSE blocks[1] \o <<"\n\n">> \o Join(Tail(blocks))

\* what image_to_string recognizes: on a page of a PDF, on an image
OcrPdfText == "<text recognized with chi_sim+eng>"
OcrImageText == "<text recognized with eng>"

\* PDFExtractor.is_scanned_pdf of a readable document
MutFirstPageOnly(d) == d.pages = <<>> \/ StripText(d.pages[1]) = ""
is_scanned_pdf(d) == \A i \in 1..Len(d.pages) : StripText(d.pages[i]) = ""

\* ------------------------------------------------------------- the parts at rest
\* the frame of an invocation of extract_content that has not started
IdleInv ==
  [pc |-> "idle", pdf_path |-> None, temp_path |-> None, temp_file |-> None,
   local_path |-> None, seen |-> EmptyFile, reads |-> {}, failed |-> FALSE, outcome |-> "none"]

\* no tool call is being handled
NoTool ==
  [pc |-> "idle", name |-> "",
   arguments |-> [isNone |-> TRUE, keys |-> {}, pdf_path |-> None, pages |-> NoneStr],
   result |-> NoOutcome, calls |-> 0]

\* an SSE connection that has not been opened; since: the start_time it registers
NoConn == [pc |-> "none", session_id |-> 0, since |-> 0, close_in_done |-> FALSE]

\* the function with no entries: an empty dict
EmptyDict == <<>>

ConcIdle == inv = <<>>
ToolIdle == server = "none" /\ tool = NoTool /\ request_count = 0 /\ error_count = 0
SseIdle ==
  /\ active_sessions = EmptyDict /\ session_close_events = EmptyDict /\ events_set = {}
  /\ conn = <<>> /\ now = 0 /\ next_check = 0
  /\ zombie_sessions_force_closed = 0 /\ zombie_sessions_cleaned = 0

\* ------------------------------------------------------------- extract_content
\* the locals and counters of a call, before its first statement
Locals ==
  /\ temp_file = None /\ local_path = None /\ is_scanned = FALSE /\ total_pages = 0
  /\ selected_pages = <<>> /\ extracted_text = <<>> /\ page_i = 1 /\ exc = <<>>
  /\ pending = NoOutcome /\ outcome = NoOutcome /\ parsed = NoParse /\ steps = <<>>
  /\ created = 0 /\ unlinked = 0 /\ unlink_failed = FALSE

Init ==
  /\ pc = "idle" /\ calls = 0 /\ next_tmp = 1
  /\ doc \in Docs /\ ext \in Exts
  /\ fs \in {{}, {[path |-> LocalPath(ext), data |-> doc]}}
  /\ pdf_path = None /\ pages = NoneStr
  /\ Locals
  /\ ConcIdle /\ ToolIdle /\ SseIdle

\* the caller calls extract_content(pdf_path, pages); an empty path raises before the try
Call ==
  /\ pc = "idle" /\ calls < MaxCalls
  /\ calls' = calls + 1
  /\ pdf_path' \in {EmptyPath, LocalPath(ext), UrlPath(ext)}
  /\ pages' \in PageArgs
  /\ IF ~PathTruthy(pdf_path')
     THEN /\ outcome' = Raise(<<"File path or URL cannot be empty">>)
          /\ pc' = "done"
     ELSE /\ outcome' = NoOutcome
          /\ pc' = "resolve"
  /\ temp_file' = None
  /\ UNCHANGED <<fs, doc, ext, next_tmp, local_path, is_scanned, total_pages, selected_pages,
                 extracted_text, page_i, exc, pending, parsed, steps, created, unlinked,
                 unlink_failed>>
  /\ UNCHANGED other_vars

\* where a failed download goes: to the handler of extract_content, with no second attempt
MutAfterDownloadFailure == "resolve"
AfterDownloadFailure == "except"

\* the URL branch: download_file creates a temporary file, then fetches the URL into it
Download ==
  /\ pc = "resolve" /\ is_url(pdf_path)
  /\ LET temp_path == TempPath(next_tmp, IF ext # "" THEN ext ELSE ".tmp")
     IN \E ok \in BOOLEAN :
          /\ next_tmp' = next_tmp + 1
          /\ created' = created + 1
          /\ IF ok
             THEN /\ fs' = Write(temp_path, doc)
                  /\ temp_file' = temp_path /\ local_path' = temp_path
                  /\ exc' = exc
                  /\ pc' = "exists"
             ELSE /\ fs' = Write(temp_path, EmptyFile)
                  /\ temp_file' = temp_file /\ local_path' = local_path
                  /\ exc' = <<"Failed to download file from URL: ", "<urlopen error>">>
                  /\ pc' = AfterDownloadFailure
  /\ steps' = Append(steps, "resolve")
  /\ UNCHANGED <<calls, doc, ext, pdf_path, pages, is_scanned, total_pages, selected_pages,
                 extracted_text, page_i, pending, outcome, parsed, unlinked, unlink_failed>>
  /\ UNCHANGED other_vars

\* the local branch: the path is used as it is
UseLocal ==
  /\ pc = "resolve" /\ ~is_url(pdf_path)
  /\ local_path' = pdf_path
  /\ pc' = "exists"
  /\ steps' = Append(steps, "resolve")
  /\ UNCHANGED <<calls, fs, doc, ext, next_tmp, pdf_path, pages, temp_file, is_scanned,
                 total_pages, selected_pages, extracted_text, page_i, exc, pending, outcome,
                 parsed, created, unlinked, unlink_failed>>
  /\ UNCHANGED other_vars

\* if not os.path.exists(local_path)
MutFileMissing(p) == FALSE
FileMissing(p) == ~Exists(p)

\* the existence check of the resolved path
CheckExists ==
  /\ pc = "exists"
  /\ steps' = Append(steps, "check_exists")
  /\ IF FileMissing(local_path)
     THEN /\ exc' = <<"File not found: ">> \o PathStr(pdf_path)
          /\ pc' = "except"
     ELSE /\ exc' = exc
          /\ pc' = "classify"
  /\ UNCHANGED <<calls, fs, doc, ext, next_tmp, pdf_path, pages, temp_file, local_path,
                 is_scanned, total_pages, selected_pages, extracted_text, page_i, pending,
                 outcome, parsed, created, unlinked, unlink_failed>>
  /\ UNCHANGED other_vars

\* an image: extract_text_from_image, which wraps every failure
ExtractImage ==
  /\ pc = "classify" /\ is_image_file(local_path)
  /\ \E ok \in BOOLEAN :
       IF ok /\ Data(local_path).readable
       THEN /\ pending' = Return(<<"Image content:\n", OcrImageText>>)
            /\ exc' = exc
            /\ pc' = "finally"
       ELSE /\ pending' = pending
            /\ exc' = <<"Failed to extract text from image: ", "<cannot identify image file>">>
            /\ pc' = "except"
  /\ steps' = Append(steps, "extract_image")
  /\ UNCHANGED <<calls, fs, doc, ext, next_tmp, pdf_path, pages, temp_file, local_path,
                 is_scanned, total_pages, selected_pages, extracted_text, page_i, outcome,
                 parsed, created, unlinked, unlink_failed>>
  /\ UNCHANGED other_vars

\* a PDF: is_scanned_pdf, which raises when PdfReader cannot read the file
Classify ==
  /\ pc = "classify" /\ ~is_image_file(local_path)
  /\ IF Data(local_path).readable
     THEN /\ is_scanned' = is_scanned_pdf(Data(local_path))
          /\ exc' = exc
          /\ pc' = "select"
     ELSE /\ is_scanned' = is_scanned
          /\ exc' = <<"<PdfReadError>">>
          /\ pc' = "except"
  /\ steps' = Append(steps, "classify")
  /\ UNCHANGED <<calls, fs, doc, ext, next_tmp, pdf_path, pages, temp_file, local_path,
                 total_pages, selected_pages, extracted_text, page_i, pending, outcome,
                 parsed, created, unlinked, unlink_failed>>
  /\ UNCHANGED other_vars

\* total_pages = len(reader.pages); selected_pages = self.parse_pages(pages, total_pages)
Select ==
  /\ pc = "select"
  /\ total_pages' = Len(Data(local_path).pages)
  /\ parsed' = parse_pages(pages, total_pages')
  /\ IF parsed'.exc = "none"
     THEN /\ selected_pages' = parsed'.pages
          /\ exc' = exc
          /\ pc' = "extract"
     ELSE /\ selected_pages' = selected_pages
          /\ exc' = <<parsed'.exc>>
          /\ pc' = "except"
  /\ steps' = Append(steps, "select")
  /\ UNCHANGED <<calls, fs, doc, ext, next_tmp, pdf_path, pages, temp_file, local_path,
                 is_scanned, extracted_text, page_i, pending, outcome, created, unlinked,
                 unlink_failed>>
  /\ UNCHANGED other_vars

\* the dispatch of extract_content: if is_scanned, extract_text_from_scanned, else
\* extract_text_from_normal
MutSelectionDecides ==
  \A j \in 1..Len(selected_pages) :
    StripText(Data(local_path).pages[selected_pages[j] + 1]) = ""
UseOcr == is_scanned

\* one pass of the loop of extract_text_from_scanned / extract_text_from_normal
ExtractPage ==
  /\ pc = "extract" /\ page_i <= Len(selected_pages)
  /\ LET page_num == selected_pages[page_i]
         text == IF UseOcr THEN OcrPdfText ELSE Data(local_path).pages[page_num + 1]
     IN \E ok \in BOOLEAN :
          IF ok
          THEN /\ extracted_text' = Append(extracted_text, PageBlock(page_num, text))
               /\ page_i' = page_i + 1
               /\ exc' = exc
               /\ pc' = "extract"
          ELSE /\ extracted_text' = extracted_text
               /\ page_i' = page_i
               /\ exc' = <<IF UseOcr THEN "<TesseractError>" ELSE "<PdfReadError>">>
               /\ pc' = "except"
  /\ steps' = Append(steps, IF UseOcr THEN "ocr_page" ELSE "read_page")
  /\ UNCHANGED <<calls, fs, doc, ext, next_tmp, pdf_path, pages, temp_file, local_path,
                 is_scanned, total_pages, selected_pages, pending, outcome, parsed, created,
                 unlinked, unlink_failed>>
  /\ UNCHANGED other_vars

\* the loop has ended: the blocks are joined and returned
ExtractDone ==
  /\ pc = "extract" /\ page_i > Len(selected_pages)
  /\ pending' = Return(Join(extracted_text))
  /\ pc' = "finally"
  /\ steps' = Append(steps, "extract_done")
  /\ UNCHANGED <<calls, fs, doc, ext, next_tmp, pdf_path, pages, temp_file, local_path,
                 is_scanned, total_pages, selected_pages, extracted_text, page_i, exc, outcome,
                 parsed, created, unlinked, unlink_failed>>
  /\ UNCHANGED other_vars

\* raise ValueError(f"Failed to extract content: {str(e)}")
MutWrapError(e) == Raise(e)
MutPartialResult(e) == Return(Join(extracted_text))
WrapError(e) == Raise(<<"Failed to extract content: ">> \o e)

\* what follows the handler: the finally block of the same try statement
MutAfterExcept == "done"
AfterExcept == "finally"

\* except Exception as e: the one handler around the whole try block
Except ==
  /\ pc = "except"
  /\ pending' = WrapError(exc)
  /\ pc' = AfterExcept
  /\ steps' = Append(steps, "except")
  /\ UNCHANGED <<calls, fs, doc, ext, next_tmp, pdf_path, pages, temp_file, local_path,
                 is_scanned, total_pages, selected_pages, extracted_text, page_i, exc, outcome,
                 parsed, created, unlinked, unlink_failed>>
  /\ UNCHANGED other_vars

\* the outcome of the call when os.unlink has raised inside the finally block
MutUnlinkErrorOutcome(o) == Raise(<<"<PermissionError>">>)
UnlinkErrorOutcome(o) == o

\* the file the finally block removes
MutCleanupTarget == local_path
CleanupTarget == temp_file

\* if temp_file and os.path.exists(temp_file), in a finally block: on every outcome
MutCleanupGuard == pending.kind = "return" /\ PathTruthy(CleanupTarget) /\ Exists(CleanupTarget)
CleanupGuard == PathTruthy(CleanupTarget) /\ Exists(CleanupTarget)

\* finally: the temporary file, if there is one, is removed; a failure is only logged
Finally ==
  /\ pc = "finally"
  /\ IF CleanupGuard
     THEN \E ok \in BOOLEAN :
            IF ok
            THEN /\ fs' = Unlink(CleanupTarget)
                 /\ unlinked' = unlinked + 1
                 /\ unlink_failed' = unlink_failed
                 /\ outcome' = pending
            ELSE /\ fs' = fs
                 /\ unlinked' = unlinked
                 /\ unlink_failed' = TRUE
                 /\ outcome' = UnlinkErrorOutcome(pending)
     ELSE /\ fs' = fs
          /\ unlinked' = unlinked
          /\ unlink_failed' = unlink_failed
          /\ outcome' = pending
  /\ pc' = "done"
  /\ steps' = Append(steps, "cleanup")
  /\ UNCHANGED <<calls, doc, ext, next_tmp, pdf_path, pages, temp_file, local_path,
                 is_scanned, total_pages, selected_pages, extracted_text, page_i, exc, pending,
                 parsed, created>>
  /\ UNCHANGED other_vars

\* the caller has the outcome; the frame of the call is gone
Finish ==
  /\ pc = "done"
  /\ pc' = "idle"
  /\ pdf_path' = None /\ pages' = NoneStr
  /\ temp_file' = None /\ local_path' = None /\ is_scanned' = FALSE /\ total_pages' = 0
  /\ selected_pages' = <<>> /\ extracted_text' = <<>> /\ page_i' = 1 /\ exc' = <<>>
  /\ pending' = NoOutcome /\ outcome' = NoOutcome /\ parsed' = NoParse /\ steps' = <<>>
  /\ created' = 0 /\ unlinked' = 0 /\ unlink_failed' = FALSE
  /\ UNCHANGED <<calls, fs, doc, ext, next_tmp>>
  /\ UNCHANGED other_vars

Next ==
  \/ Call \/ Download \/ UseLocal \/ CheckExists \/ ExtractImage \/ Classify \/ Select
  \/ ExtractPage \/ ExtractDone \/ Except \/ Finally \/ Finish

Spec == Init /\ [][Next]_vars

\* ------------------------------------------------------------- parse_pages alone
\* every page specification of at most MaxLen characters, and None
PageSpecs == {NoneStr} \cup {Str(s) : s \in Strings(MaxLen)}

InitParse ==
  /\ pc = "parse" /\ calls = 0 /\ next_tmp = 1
  /\ doc = EmptyFile /\ ext = "" /\ fs = {}
  /\ pdf_path = None
  /\ pages \in PageSpecs
  /\ temp_file = None /\ local_path = None /\ is_scanned = FALSE
  /\ total_pages \in 0..MaxTotal
  /\ selected_pages = <<>> /\ extracted_text = <<>> /\ page_i = 1 /\ exc = <<>>
  /\ pending = NoOutcome /\ outcome = NoOutcome /\ parsed = NoParse /\ steps = <<>>
  /\ created = 0 /\ unlinked = 0 /\ unlink_failed = FALSE
  /\ ConcIdle /\ ToolIdle /\ SseIdle

\* a call of parse_pages(pages, total_pages)
Parse ==
  /\ pc = "parse"
  /\ parsed' = parse_pages(pages, total_pages)
  /\ pc' = "parsed"
  /\ UNCHANGED <<calls, fs, doc, ext, next_tmp, pdf_path, pages, temp_file, local_path,
                 is_scanned, total_pages, selected_pages, extracted_text, page_i, exc, pending,
                 outcome, steps, created, unlinked, unlink_failed>>
  /\ UNCHANGED other_vars

NextParse == Parse

SpecParse == InitParse /\ [][NextParse]_vars

\* ------------------------------------------------------------- claims: the temporary file
\* the temporary files on disk that the current call created
CallTemps ==
  {f.path : f \in {g \in fs : g.path.stem = "/tmp/tmp" /\ g.path.n >= next_tmp - created}}

\* a call with a URL has ended
UrlCallDone == pc = "done" /\ is_url(pdf_path)

\* C1: when a call with a URL has ended, it has created exactly one temporary file,
\* has deleted it exactly once, and the file is gone, however the call ended (a call
\* whose deletion itself raised is left aside here: that is C2's and C8's case).
C1_OneTempDeletedOnce ==
  (UrlCallDone /\ ~unlink_failed) => (created = 1 /\ unlinked = 1 /\ CallTemps = {})

\* C2 as stated: after a call whose download succeeded, the temporary file is gone.
C2_TempGoneAfterCall ==
  (pc = "done" /\ PathTruthy(temp_file)) => ~Exists(temp_file)

\* C2, amended: after a successful download the temporary file stays on disk until
\* the outcome is determined, its deletion is attempted as the last step of the call,
\* and once the call has ended the file is gone unless that deletion itself raised.
C2_TempDeletedLast ==
  /\ (PathTruthy(temp_file) /\ pc \in {"exists", "classify", "select", "extract", "except",
                                       "finally"})
       => (Exists(temp_file) /\ unlinked = 0)
  /\ pc = "finally" => pending.kind \in {"return", "ValueError"}
  /\ (pc = "done" /\ PathTruthy(temp_file))
       => /\ steps[Len(steps)] = "cleanup"
          /\ outcome.kind \in {"return", "ValueError"}
          /\ unlink_failed \/ (~Exists(temp_file) /\ unlinked = 1)
          /\ unlink_failed => (Exists(temp_file) /\ unlinked = 0)

\* a call that failed after its download succeeded has ended, the temporary file deleted
C2_Witness ==
  /\ pc = "done" /\ PathTruthy(temp_file) /\ outcome.kind = "ValueError"
  /\ unlinked = 1 /\ ~Exists(temp_file)

\* C7: no step of a call on a local path creates a temporary file or changes the
\* files on disk, the file at that path included.
C7_LocalPathUntouched ==
  [][(pc # "idle" /\ PathTruthy(pdf_path) /\ ~is_url(pdf_path))
       => (fs' = fs /\ created' = created /\ created = 0 /\ next_tmp' = next_tmp)]_vars

\* a call on an existing local path has returned a text and the file is still there
C7_Witness ==
  /\ pc = "done" /\ pdf_path = LocalPath(ext) /\ outcome.kind = "return"
  /\ Exists(pdf_path) /\ Data(pdf_path) = doc /\ "cleanup" \in SetOf(steps)

\* C8: when os.unlink raised during cleanup, the caller still gets the outcome the
\* try and except blocks had determined: the same result, or the same error.
C8_UnlinkFailureKeepsOutcome ==
  (pc = "done" /\ unlink_failed)
    => /\ outcome = pending
       /\ outcome.kind \in {"return", "ValueError"}
       /\ outcome.kind = "ValueError" <=> exc # <<>>
       /\ outcome.kind = "ValueError" => outcome = WrapError(exc)

\* a call that had failed, and whose cleanup failed too, has ended with its own error
C8_Witness ==
  /\ pc = "done" /\ unlink_failed /\ outcome.kind = "ValueError"
  /\ outcome.value = <<"Failed to extract content: ", "<PdfReadError>">>

\* the stages that classify, select pages or extract
WorkSteps == {"extract_image", "classify", "select", "ocr_page", "read_page", "extract_done"}

\* a call on a local path with no file behind it has ended
MissingLocalDone ==
  pc = "done" /\ PathTruthy(pdf_path) /\ ~is_url(pdf_path) /\ ~Exists(pdf_path)

\* C9: a call on a local path that does not exist ends with an error whose message
\* contains "File not found", and has run no classification, selection or extraction.
C9_FileNotFound ==
  MissingLocalDone
    => /\ outcome.kind = "ValueError"
       /\ \E i \in 1..Len(outcome.value) : outcome.value[i] = "File not found: "
       /\ SetOf(steps) \cap WorkSteps = {}

C9_Witness == MissingLocalDone /\ outcome.kind = "ValueError"

\* a call has ended with an error
Failed == pc = "done" /\ outcome.kind # "return"

\* C10 as stated: every failure, the empty source included, is the error the outer
\* handler produces: "Failed to extract content: " followed by the cause's text.
C10_AllFailuresWrapped ==
  Failed => /\ outcome.kind = "ValueError"
            /\ Len(outcome.value) >= 2
            /\ outcome.value[1] = "Failed to extract content: "
            /\ "except" \in SetOf(steps)

\* C10, amended: every failure reaches the caller as a ValueError whose message
\* holds the cause's text. A failure inside the try block is produced by the outer
\* handler as "Failed to extract content: " followed by the cause's text; an empty
\* source is raised before the try block, unwrapped, and runs no stage at all.
C10_OneErrorKind ==
  /\ pc = "done" => (outcome.kind = "return" <=> (exc = <<>> /\ PathTruthy(pdf_path)))
  /\ Failed
       => /\ outcome.kind = "ValueError"
          /\ IF PathTruthy(pdf_path)
             THEN /\ exc # <<>>
                  /\ outcome.value = <<"Failed to extract content: ">> \o exc
                  /\ Len(steps) >= 2
                  /\ steps[Len(steps) - 1] = "except"
             ELSE /\ outcome.value = <<"File path or URL cannot be empty">>
                  /\ steps = <<>>

\* a failed download has reached the caller, wrapped twice
C10_Witness ==
  /\ Failed
  /\ outcome.value
       = <<"Failed to extract content: ", "Failed to download file from URL: ",
           "<urlopen error>">>

\* ------------------------------------------------------------- claims: parse_pages
\* parse_pages has returned
Parsed == pc = "parsed"

\* C3: the list parse_pages returns is strictly ascending (so without duplicates)
\* and each of its elements is in [0, total_pages).
C3_SelectionAscendingInRange ==
  Parsed
    => \A i \in 1..Len(parsed.pages) :
         /\ 0 <= parsed.pages[i] /\ parsed.pages[i] < total_pages
         /\ i < Len(parsed.pages) => parsed.pages[i] < parsed.pages[i + 1]

\* "2,1,2" is not in reach of four characters; "2,1" and "1,1" are
C3_Witness ==
  /\ Parsed /\ pages = Str(<<"2", ",", "1">>) /\ total_pages = 2
  /\ parsed.pages = <<0, 1>>

\* the integers the parts of a page specification stand for
IntTokens(s) ==
  {int(Split(s)[i]).val : i \in {j \in 1..Len(Split(s)) : int(Split(s)[j]).exc = "none"}}

\* C4: for a non-empty page specification the result holds exactly n - 1 for each
\* integer token n with 1 <= n <= total_pages and total_pages + n for each integer
\* token n with -total_pages <= n <= -1; "1,-1" of 5 pages gives [0, 4].
C4_TokenMapping ==
  (Parsed /\ Truthy(pages))
    => /\ SetOf(parsed.pages)
            = {n - 1 : n \in {m \in IntTokens(pages.str) : 1 <= m /\ m <= total_pages}}
              \cup {total_pages + n :
                      n \in {m \in IntTokens(pages.str) : 0 - total_pages <= m /\ m <= 0 - 1}}
       /\ (pages.str = <<"1", ",", "-", "1">> /\ total_pages = 5) => parsed.pages = <<0, 4>>

C4_Witness ==
  /\ Parsed /\ pages = Str(<<"1", ",", "-", "1">>) /\ total_pages = 5
  /\ parsed.pages = <<0, 4>>

\* the non-empty parts of a page specification
Parts(s) == {Split(s)[i] : i \in {j \in 1..Len(Split(s)) : Split(s)[j] # <<>>}}

\* C5: parse_pages raises for no page specification, and what it returns is the
\* union of what each part gives when it is the whole specification: a part that
\* is dropped changes nothing for the others. "0" and "10" of 5 pages give [].
C5_NeverFails ==
  Parsed
    => /\ parsed.exc = "none"
       /\ Truthy(pages)
            => SetOf(parsed.pages)
                 = UNION {SetOf(parse_pages(Str(part), total_pages).pages) :
                            part \in Parts(pages.str)}
       /\ (pages.str \in {<<"0">>, <<"1", "0">>} /\ ~pages.isNone /\ total_pages = 5)
            => parsed.pages = <<>>

\* a zero and a word that ends in a digit: both dropped, nothing raised
C5_Witness ==
  /\ Parsed /\ pages = Str(<<"0", ",", "x", "1">>) /\ total_pages = 5
  /\ parsed = [exc |-> "none", pages |-> <<>>]

\* C6: for None and for "" parse_pages returns 0, 1, ..., total_pages - 1.
C6_AbsentSelectsAll ==
  (Parsed /\ (pages.isNone \/ pages.str = <<>>))
    => /\ parsed.exc = "none"
       /\ Len(parsed.pages) = total_pages
       /\ \A i \in 1..total_pages : parsed.pages[i] = i - 1

C6_Witness ==
  Parsed /\ pages = NoneStr /\ total_pages = 3 /\ parsed.pages = <<0, 1, 2>>

\* ------------------------------------------------------------- claims: the stages
\* the stage a step belongs to: 1 source resolution, 2 format classification, 3 page
\* selection, 4 text extraction, 5 cleanup; 0 is the handler, which is no stage. The
\* image test of the classification is the guard of the step that extracts an image.
StageOf(step) ==
  CASE step \in {"resolve", "check_exists"} -> 1
    [] step = "classify" -> 2
    [] step = "select" -> 3
    [] step \in {"extract_image", "ocr_page", "read_page", "extract_done"} -> 4
    [] step = "cleanup" -> 5
    [] step = "except" -> 0

\* the stages run up to position i of the steps
StagesBefore(i) == {StageOf(steps[j]) : j \in 1..(i - 1)} \ {0}
StagesRun == StagesBefore(Len(steps) + 1)

\* C11: the stages of a call run in the order resolution, classification, selection,
\* extraction, cleanup; a stage runs only after all stages before it (an image goes
\* from resolution to extraction); a call that returns has run them all; after a
\* failure only cleanup runs; cleanup is the last step of every call that ran a stage
\* (a call with an empty source runs none).
C11_StagesInOrder ==
  /\ \A i \in 1..Len(steps) : \A j \in (i + 1)..Len(steps) :
       (StageOf(steps[i]) # 0 /\ StageOf(steps[j]) # 0)
         => StageOf(steps[i]) <= StageOf(steps[j])
  /\ \A i \in 1..Len(steps) :
       /\ StageOf(steps[i]) \in {2, 3} => StagesBefore(i) = 1..(StageOf(steps[i]) - 1)
       /\ StageOf(steps[i]) = 4
            => StagesBefore(i) \in {{1}, {1, 4}, {1, 2, 3}, {1, 2, 3, 4}}
       /\ steps[i] = "extract_image" => StagesBefore(i) = {1}
       /\ steps[i] = "cleanup" => i = Len(steps)
       /\ steps[i] = "except" => \A j \in (i + 1)..Len(steps) : steps[j] = "cleanup"
  /\ (pc = "done" /\ outcome.kind = "return")
       => StagesRun = IF "extract_image" \in SetOf(steps) THEN {1, 4, 5} ELSE 1..5
  /\ (pc = "done" /\ outcome.kind # "return" /\ PathTruthy(pdf_path))
       => ("except" \in SetOf(steps) /\ 5 \in StagesRun)
  /\ pc = "done" => (IF PathTruthy(pdf_path) THEN steps[Len(steps)] = "cleanup"
                                             ELSE steps = <<>>)
  /\ pc \in {"resolve", "exists", "classify", "select", "extract", "except", "finally"}
       => 5 \notin StagesRun

\* a call on a PDF has failed in its second page and has ended with the cleanup
C11_Witness ==
  /\ pc = "done"
  /\ steps = <<"resolve", "check_exists", "classify", "select", "read_page", "read_page",
               "except", "cleanup">>

\* ------------------------------------------------------------- claims: the output
\* a call on a PDF has returned a text
PdfReturned == pc = "done" /\ outcome.kind = "return" /\ "select" \in SetOf(steps)

\* the decimal numeral of a page number of the document
PageLabel(n) == CASE n = 1 -> "1" [] n = 2 -> "2" [] n = 3 -> "3" [] n = 4 -> "4"

\* C12: the text returned for a PDF is, for the selected indices in ascending order,
\* "Page ", the index plus one, ":\n" and the page's text, with "\n\n" between two
\* pages and nothing before the first or after the last; one page "Hello" selected
\* by "1" gives exactly "Page 1:\nHello".
C12_PageBlocksJoined ==
  PdfReturned
    => LET k == Len(selected_pages)
           v == outcome.value
       IN /\ Len(v) = IF k = 0 THEN 0 ELSE 5 * k - 1
          /\ \A j \in 1..k :
               /\ v[5 * (j - 1) + 1] = "Page "
               /\ v[5 * (j - 1) + 2] = PageLabel(selected_pages[j] + 1)
               /\ v[5 * (j - 1) + 3] = ":\n"
               /\ v[5 * (j - 1) + 4]
                    = IF is_scanned THEN OcrPdfText ELSE doc.pages[selected_pages[j] + 1]
               /\ j < k => (v[5 * j] = "\n\n" /\ selected_pages[j] < selected_pages[j + 1])
          /\ (doc.pages = <<"Hello">> /\ pages = Str(<<"1">>))
               => v = <<"Page ", "1", ":\n", "Hello">>

C12_Witness ==
  /\ PdfReturned /\ doc.pages = <<"Hello">> /\ pages = Str(<<"1">>)
  /\ outcome.value = <<"Page ", "1", ":\n", "Hello">>

\* a page without text: no text layer, or whitespace only
Blank(t) == t \in {"", " \n"}

\* C13: a readable PDF is classified as scanned exactly when each of its pages is
\* blank (so also when it has no page); only a scanned PDF has its pages recognized,
\* and a PDF with a page of text has its pages read from the text layer.
C13_ScannedIffAllBlank ==
  ("select" \in SetOf(steps))
    => /\ is_scanned <=> \A i \in 1..Len(doc.pages) : Blank(doc.pages[i])
       /\ "ocr_page" \in SetOf(steps) => \A i \in 1..Len(doc.pages) : Blank(doc.pages[i])
       /\ "read_page" \in SetOf(steps) => \E i \in 1..Len(doc.pages) : ~Blank(doc.pages[i])
       /\ \A j \in 1..Len(extracted_text) :
            extracted_text[j][4] = OcrPdfText
              <=> \A i \in 1..Len(doc.pages) : Blank(doc.pages[i])

\* a document whose first page is blank and whose second has text is read directly
C13_Witness ==
  /\ pc = "done" /\ doc.pages = <<" \n", "Hello">> /\ pages = Str(<<"1">>)
  /\ ~is_scanned /\ outcome = Return(<<"Page ", "1", ":\n", " \n">>)

\* the extensions the image test recognizes, in the cases the documents come in
RecognizedImage(path) ==
  path.ext \in {".jpg", ".jpeg", ".png", ".gif", ".bmp", ".tiff", ".webp", ".PNG"}

\* a call on a source with an image extension has ended
ImageCallDone == pc = "done" /\ RecognizedImage(pdf_path)

\* C14 as stated: a call on a source with an image extension always returns a text
\* that begins with "Image content:\n".
C14_ImageAlwaysReturns ==
  ImageCallDone => (outcome.kind = "return" /\ outcome.value[1] = "Image content:\n")

\* C14, amended: a call on a source with an image extension, when it returns, returns
\* a text that begins with "Image content:\n"; it fails when the file is missing, the
\* download fails or the recognition fails; either way it runs no PDF inspection, no
\* page count and no page selection.
C14_ImageContentOrError ==
  /\ ImageCallDone
       => /\ outcome.kind \in {"return", "ValueError"}
          /\ outcome.kind = "return"
               => (outcome.value = <<"Image content:\n", OcrImageText>>
                   /\ "extract_image" \in SetOf(steps))
          /\ outcome.kind = "ValueError"
               => exc[1] \in {"File not found: ", "Failed to download file from URL: ",
                              "Failed to extract text from image: "}
  /\ RecognizedImage(pdf_path)
       => (SetOf(steps) \cap {"classify", "select", "ocr_page", "read_page", "extract_done"} = {}
           /\ total_pages = 0 /\ parsed = NoParse)

C14_Witness ==
  /\ ImageCallDone /\ pdf_path = UrlPath(".PNG")
  /\ outcome = Return(<<"Image content:\n", OcrImageText>>)

\* C15: a call in which a selected page could not be read or recognized ends with an
\* error that holds the cause and no page text, whatever pages it had extracted.
C15_NoPartialResult ==
  (pc = "done" /\ "select" \in SetOf(steps) /\ "except" \in SetOf(steps))
    => /\ outcome.kind = "ValueError"
       /\ outcome.value \in {<<"Failed to extract content: ", "<TesseractError>">>,
                             <<"Failed to extract content: ", "<PdfReadError>">>}

\* the first page was extracted, the second failed, and the caller got the error only
C15_Witness ==
  /\ pc = "done" /\ Len(extracted_text) = 1 /\ Len(selected_pages) = 2
  /\ outcome = Raise(<<"Failed to extract content: ", "<TesseractError>">>)

\* how often a step occurs among the steps of the call
Count(step) == Cardinality({i \in 1..Len(steps) : steps[i] = step})

\* C16: a call attempts the download once at most and each selected page once at
\* most, in order; no step other than a page's runs twice, and after the handler
\* has run nothing runs but the cleanup.
C16_NoRetry ==
  /\ Count("resolve") <= 1 /\ created <= 1 /\ Count("except") <= 1
  /\ \A st \in {"check_exists", "classify", "select", "extract_image", "extract_done",
                "cleanup"} : Count(st) <= 1
  /\ Count("ocr_page") + Count("read_page") <= Len(selected_pages)
  /\ Count("ocr_page") + Count("read_page")
       = Len(extracted_text) + (IF exc # <<>> /\ exc[1] \in {"<TesseractError>"} THEN 1 ELSE 0)
                             + (IF exc = <<"<PdfReadError>">> /\ "select" \in SetOf(steps)
                                THEN 1 ELSE 0)
  /\ \A j \in 1..Len(extracted_text) :
       extracted_text[j][2] = PageLabel(selected_pages[j] + 1)
  /\ \A i \in 1..Len(steps) :
       steps[i] = "except" => \A j \in (i + 1)..Len(steps) : steps[j] = "cleanup"

\* a download has failed and the call has ended, one attempt made
C16_Witness ==
  /\ pc = "done" /\ steps = <<"resolve", "except", "cleanup">> /\ created = 1
  /\ exc[1] = "Failed to download file from URL: "

\* the page specification selects no page of a document of n pages
SelectsNothing(o, n) ==
  \/ n = 0
  \/ /\ Truthy(o)
     /\ \A m \in IntTokens(o.str) : ~(1 <= m /\ m <= n) /\ ~(0 - n <= m /\ m <= 0 - 1)

\* C18: a call on a readable PDF whose page specification selects no page returns
\* the empty string, unless a step before the selection failed.
C18_EmptySelectionReturnsEmpty ==
  (pc = "done" /\ "select" \in SetOf(steps) /\ SelectsNothing(pages, Len(doc.pages)))
    => outcome = Return(<<>>)

\* "0" selects no page of a scanned document of two pages
C18_Witness ==
  /\ pc = "done" /\ is_scanned /\ Len(doc.pages) = 2 /\ pages = Str(<<"0">>)
  /\ selected_pages = <<>> /\ outcome = Return(<<>>)

\* ------------------------------------------------------------- concurrent invocations
\* how many invocations of extract_content run side by side
MaxInv == 2
Invs == 1..MaxInv

\* suffix=os.path.splitext(parsed_url.path)[1] or '.tmp'
Suffix == IF ext # "" THEN ext ELSE ".tmp"

\* the names NamedTemporaryFile may pick: any name no file on disk has
MutFixedName == {1}
FreshNames == {n \in 1..(Cardinality(fs) + 1) : ~Exists(TempPath(n, Suffix))}

\* the documents behind the URL here: unreadable, without pages, with one page of text
ConcDocs == {d \in Docs : d.pages \in {<<>>, <<"Hello">>}}

InitConc ==
  /\ pc = "concurrent" /\ calls = 0 /\ next_tmp = 1
  /\ doc \in ConcDocs /\ ext \in Exts
  /\ fs \in {{}, {[path |-> LocalPath(ext), data |-> doc]}}
  /\ pdf_path = None /\ pages = NoneStr
  /\ Locals
  /\ inv = [i \in Invs |-> IdleInv]
  /\ ToolIdle /\ SseIdle

\* what an action of invocation i leaves alone
ConcFrame == UNCHANGED <<call_vars, tool_vars, sse_vars>>
ConcFrameButFs ==
  UNCHANGED <<pc, calls, doc, ext, next_tmp, pdf_path, pages, temp_file, local_path, is_scanned,
              total_pages, selected_pages, extracted_text, page_i, exc, pending, outcome,
              parsed, steps, created, unlinked, unlink_failed, tool_vars, sse_vars>>

\* invocation i is called; an empty path raises before the try
CCall(i) ==
  /\ inv[i].pc = "idle"
  /\ \E p \in {EmptyPath, LocalPath(ext), UrlPath(ext)} :
       inv' = [inv EXCEPT ![i].pdf_path = p,
                          ![i].pc = IF PathTruthy(p) THEN "resolve" ELSE "done",
                          ![i].outcome = IF PathTruthy(p) THEN "none" ELSE "ValueError"]
  /\ ConcFrame

\* download_file, first half: NamedTemporaryFile creates an empty file under a fresh name
CCreate(i) ==
  /\ inv[i].pc = "resolve" /\ is_url(inv[i].pdf_path)
  /\ \E n \in FreshNames :
       /\ fs' = Write(TempPath(n, Suffix), EmptyFile)
       /\ inv' = [inv EXCEPT ![i].temp_path = TempPath(n, Suffix), ![i].pc = "fetch"]
  /\ ConcFrameButFs

\* download_file, second half: urlretrieve fills the file, or fails
CFetch(i) ==
  /\ inv[i].pc = "fetch"
  /\ \E ok \in BOOLEAN :
       IF ok
       THEN /\ fs' = Write(inv[i].temp_path, doc)
            /\ inv' = [inv EXCEPT ![i].temp_file = inv[i].temp_path,
                                   ![i].local_path = inv[i].temp_path,
                                   ![i].pc = "exists"]
       ELSE /\ fs' = fs
            /\ inv' = [inv EXCEPT ![i].failed = TRUE, ![i].pc = AfterDownloadFailure]
  /\ ConcFrameButFs

CUseLocal(i) ==
  /\ inv[i].pc = "resolve" /\ ~is_url(inv[i].pdf_path)
  /\ inv' = [inv EXCEPT ![i].local_path = inv[i].pdf_path, ![i].pc = "exists"]
  /\ ConcFrame

CCheckExists(i) ==
  /\ inv[i].pc = "exists"
  /\ inv' = IF FileMissing(inv[i].local_path)
            THEN [inv EXCEPT ![i].failed = TRUE, ![i].pc = "except"]
            ELSE [inv EXCEPT ![i].pc = "classify"]
  /\ ConcFrame

\* the first read of local_path: extract_text_from_image, or is_scanned_pdf
CClassify(i) ==
  /\ inv[i].pc = "classify"
  /\ \E ok \in BOOLEAN :
       inv' = IF ok /\ Data(inv[i].local_path).readable
              THEN [inv EXCEPT ![i].seen = Data(inv[i].local_path),
                               ![i].pc = IF is_image_file(inv[i].local_path)
                                         THEN "finally" ELSE "extract"]
              ELSE [inv EXCEPT ![i].failed = TRUE, ![i].pc = "except"]
  /\ ConcFrame

\* the second read of local_path: the extraction of the selected pages
CExtract(i) ==
  /\ inv[i].pc = "extract"
  /\ \E ok \in BOOLEAN :
       inv' = IF ok /\ Data(inv[i].local_path).readable
              THEN [inv EXCEPT ![i].seen = Data(inv[i].local_path), ![i].pc = "finally"]
              ELSE [inv EXCEPT ![i].failed = TRUE, ![i].pc = "except"]
  /\ ConcFrame

CExcept(i) ==
  /\ inv[i].pc = "except"
  /\ inv' = [inv EXCEPT ![i].pc = AfterExcept]
  /\ ConcFrame

\* finally: the invocation removes its own temp_file, if it has one
CFinally(i) ==
  /\ inv[i].pc = "finally"
  /\ IF PathTruthy(inv[i].temp_file) /\ Exists(inv[i].temp_file)
     THEN \E ok \in BOOLEAN : fs' = IF ok THEN Unlink(inv[i].temp_file) ELSE fs
     ELSE fs' = fs
  /\ inv' = [inv EXCEPT ![i].pc = "done",
                         ![i].outcome = IF inv[i].failed THEN "ValueError" ELSE "return"]
  /\ ConcFrameButFs

NextConc ==
  \E i \in Invs :
    \/ CCall(i) \/ CCreate(i) \/ CFetch(i) \/ CUseLocal(i) \/ CCheckExists(i)
    \/ CClassify(i) \/ CExtract(i) \/ CExcept(i) \/ CFinally(i)

SpecConc == InitConc /\ [][NextConc]_vars

\* invocation i has downloaded a temporary file and has not yet reached the end of its cleanup
InUse(i) ==
  /\ PathTruthy(inv[i].temp_file)
  /\ inv[i].pc \in {"exists", "classify", "extract", "except", "finally"}

\* invocation i reads its local_path in this step
ReadStep(i) == inv[i].pc \in {"classify", "extract"} /\ inv'[i] # inv[i]

\* C17: the temporary file of an invocation that is using it is on disk and holds what that
\* invocation downloaded (nobody has deleted or overwritten it), no other invocation has the
\* same temporary file, also when both were given the same URL, no other invocation reads
\* it, and what an invocation has extracted from its temporary file is what it downloaded
C17_OwnTempFile ==
  /\ [](\A i \in Invs :
          InUse(i) =>
            /\ Exists(inv[i].temp_file) /\ Data(inv[i].temp_file) = doc
            /\ \A j \in Invs \ {i} :
                 /\ inv[j].pc # "done" => inv[j].temp_path # inv[i].temp_file
                 /\ inv[j].pc # "done" => inv[j].local_path # inv[i].temp_file)
  /\ [](\A i \in Invs :
          PathTruthy(inv[i].temp_file) /\ inv[i].outcome = "return" => inv[i].seen = doc)
  /\ [][\A i \in Invs : \A j \in Invs \ {i} :
          InUse(i) /\ ReadStep(j) => inv[j].local_path # inv[i].temp_file]_vars

\* two invocations given the same URL are both extracting, each from its temporary file
C17_Witness ==
  /\ inv[1].pc = "extract" /\ inv[2].pc = "extract"
  /\ inv[1].pdf_path = inv[2].pdf_path /\ is_url(inv[1].pdf_path)
  /\ PathTruthy(inv[1].temp_file) /\ PathTruthy(inv[2].temp_file)

\* ------------------------------------------------------------- the tool handlers
\* how many tool calls a server handles
MaxToolCalls == 2

ToolNames == {"extract-pdf-contents", "read-pdf"}

\* the arguments of a tool call: None, or a dict with some of the keys pdf_path and pages
NoArguments == [isNone |-> TRUE, keys |-> {}, pdf_path |-> None, pages |-> NoneStr]
Dict(keys, p, pg) ==
  [isNone |-> FALSE, keys |-> keys,
   pdf_path |-> IF "pdf_path" \in keys THEN p ELSE None,
   pages |-> IF "pages" \in keys THEN pg ELSE NoneStr]
ToolPaths == {None, EmptyPath, LocalPath(ext), UrlPath(ext)}
ToolPages == {NoneStr, Str(<<"1">>), Str(<<"x">>)}
ToolArguments ==
  {NoArguments}
  \cup {Dict(keys, p, pg) : keys \in SUBSET {"pdf_path", "pages"}, p \in ToolPaths,
                           pg \in ToolPages}

\* arguments.get("pdf_path"), arguments.get("pages"): None where the key is missing
GetPath(arguments) == IF "pdf_path" \in arguments.keys THEN arguments.pdf_path ELSE None
GetPages(arguments) == IF "pages" \in arguments.keys THEN arguments.pages ELSE NoneStr

\* if not arguments
NotArguments(arguments) == arguments.isNone \/ arguments.keys = {}

\* if not pdf_path
MutMissingPath(p) == p = None
MissingPath(p) == ~PathTruthy(p)

\* the error a tool call is refused with, <<>> if it is not refused
Refusal(name, arguments) ==
  IF name # "extract-pdf-contents" THEN <<"Unknown tool: ", name>>
  ELSE IF NotArguments(arguments) THEN <<"Missing arguments">>
  ELSE IF MissingPath(GetPath(arguments)) THEN <<"Missing file path">>
  ELSE <<>>

InitTool ==
  /\ pc = "idle" /\ calls = 0 /\ next_tmp = 1
  /\ doc \in Docs /\ ext \in Exts
  /\ fs \in {{}, {[path |-> LocalPath(ext), data |-> doc]}}
  /\ pdf_path = None /\ pages = NoneStr
  /\ Locals
  /\ server \in {"stdio", "http"}
  /\ tool = NoTool /\ request_count = 0 /\ error_count = 0
  /\ ConcIdle /\ SseIdle

\* handle_call_tool up to the call of extract_content; the HTTP server counts the request,
\* and counts a refused call once where it refuses it and once more in its handler
CallTool(srv) ==
  /\ server = srv /\ tool.pc = "idle" /\ pc = "idle" /\ tool.calls < MaxToolCalls
  /\ \E name \in ToolNames, arguments \in ToolArguments :
       LET refusal == Refusal(name, arguments)
           refused == refusal # <<>>
       IN /\ tool' = [pc |-> IF refused THEN "failed" ELSE "extracting",
                      name |-> name, arguments |-> arguments,
                      result |-> IF refused THEN Raise(refusal) ELSE NoOutcome,
                      calls |-> tool.calls + 1]
          /\ request_count' = IF srv = "http" THEN request_count + 1 ELSE request_count
          /\ error_count' = IF srv = "http" /\ refused THEN error_count + 2 ELSE error_count
          /\ IF refused
             THEN UNCHANGED <<calls, pdf_path, pages, outcome, pc, temp_file>>
             ELSE /\ calls' = calls + 1
                  /\ pdf_path' = GetPath(arguments)
                  /\ pages' = GetPages(arguments)
                  /\ IF ~PathTruthy(pdf_path')
                     THEN /\ outcome' = Raise(<<"File path or URL cannot be empty">>)
                          /\ pc' = "done"
                     ELSE /\ outcome' = NoOutcome
                          /\ pc' = "resolve"
                  /\ temp_file' = None
  /\ UNCHANGED <<fs, doc, ext, next_tmp, local_path, is_scanned, total_pages, selected_pages,
                 extracted_text, page_i, exc, pending, parsed, steps, created, unlinked,
                 unlink_failed>>
  /\ UNCHANGED <<server, conc_vars, sse_vars>>

\* server.py
StdioCallTool == CallTool("stdio")
\* http_server.py
HttpCallTool == CallTool("http")

\* extract_content has ended: its text is returned, or its error is raised again; the HTTP
\* server counts the error
ToolReturn ==
  /\ tool.pc = "extracting" /\ pc = "done"
  /\ tool' = [tool EXCEPT !.pc = IF outcome.kind = "return" THEN "returned" ELSE "failed",
                          !.result = outcome]
  /\ error_count' = IF server = "http" /\ outcome.kind # "return"
                    THEN error_count + 1 ELSE error_count
  /\ pc' = "idle"
  /\ pdf_path' = None /\ pages' = NoneStr
  /\ temp_file' = None /\ local_path' = None /\ is_scanned' = FALSE /\ total_pages' = 0
  /\ selected_pages' = <<>> /\ extracted_text' = <<>> /\ page_i' = 1 /\ exc' = <<>>
  /\ pending' = NoOutcome /\ outcome' = NoOutcome /\ parsed' = NoParse /\ steps' = <<>>
  /\ created' = 0 /\ unlinked' = 0 /\ unlink_failed' = FALSE
  /\ UNCHANGED <<calls, fs, doc, ext, next_tmp, server, request_count, conc_vars, sse_vars>>

\* the response has gone to the client
ToolDone ==
  /\ tool.pc \in {"returned", "failed"}
  /\ tool' = [NoTool EXCEPT !.calls = tool.calls]
  /\ UNCHANGED <<call_vars, server, request_count, error_count, conc_vars, sse_vars>>

NextTool ==
  \/ StdioCallTool \/ HttpCallTool \/ ToolReturn \/ ToolDone
  \/ Download \/ UseLocal \/ CheckExists \/ ExtractImage \/ Classify \/ Select
  \/ ExtractPage \/ ExtractDone \/ Except \/ Finally

SpecTool == InitTool /\ [][NextTool]_vars

\* the call names the tool and its arguments contain a non-empty pdf_path
WellFormed(t) ==
  /\ t.name = "extract-pdf-contents"
  /\ ~t.arguments.isNone
  /\ "pdf_path" \in t.arguments.keys
  /\ t.arguments.pdf_path \notin {None, EmptyPath}

\* a step in which a handler takes up a tool call
TakesCall == tool.pc = "idle" /\ tool'.pc # "idle"

\* C19: extract_content is invoked only by a tool call named extract-pdf-contents whose
\* arguments contain a non-empty pdf_path, with that path and with the pages argument as it
\* was given (None when omitted); every other tool call fails with an error, invokes nothing
\* and leaves the files alone
C19_ToolBoundary ==
  /\ [][TakesCall =>
         IF WellFormed(tool')
         THEN /\ tool'.pc = "extracting" /\ pc' = "resolve" /\ calls' = calls + 1
              /\ pdf_path' = tool'.arguments.pdf_path
              /\ pages' = (IF "pages" \in tool'.arguments.keys
                           THEN tool'.arguments.pages ELSE NoneStr)
         ELSE /\ tool'.pc = "failed" /\ tool'.result.kind = "ValueError"
              /\ pc' = "idle" /\ calls' = calls /\ steps' = <<>> /\ fs' = fs]_vars
  /\ [][calls' # calls => TakesCall /\ WellFormed(tool')]_vars
  /\ [](pc # "idle" => tool.pc = "extracting" /\ WellFormed(tool)
                       /\ pdf_path = tool.arguments.pdf_path)

\* the second tool call is extracting with the pages it was given, after the first tool call
\* was refused without an invocation of extract_content
C19_Witness ==
  /\ tool.pc = "extracting" /\ pc = "select"
  /\ "pages" \in tool.arguments.keys /\ pages = Str(<<"1">>)
  /\ tool.calls = 2 /\ calls = 1

\* ------------------------------------------------------------- the SSE sessions
initialization_timeout_seconds == 30
cleanup_check_interval == 10

\* how many SSE connections are opened, how far the clock runs (in check intervals), how
\* many POSTs a session receives
MaxConns == 2
MaxTicks == 4
MaxRequests == 1
\* how far the clock runs where clients connect again
MaxLateTicks == 5
Conns == 1..MaxConns

\* d[k] = v, del d[k]
Put(d, k, v) == [x \in DOMAIN d \cup {k} |-> IF x = k THEN v ELSE d[x]]
Del(d, k) == [x \in DOMAIN d \ {k} |-> d[x]]

\* session ids: n stands for "session_n"
SessionIds == 1..MaxConns
\* the session_id query parameter of a POST: 0 when the request has none
QueryIds == {0} \cup SessionIds
\* the session_id query parameter of a GET: none, or the client names "session_1" itself
OpenIds == {0, 1}

\* the entry handle_sse registers
NewSession(t) ==
  [start_time |-> t, requests |-> 0, initialized |-> FALSE, force_closed |-> FALSE]

InitSse ==
  /\ pc = "idle" /\ calls = 0 /\ next_tmp = 1
  /\ doc = EmptyFile /\ ext = "" /\ fs = {}
  /\ pdf_path = None /\ pages = NoneStr
  /\ Locals
  /\ ConcIdle
  /\ server = "http" /\ tool = NoTool /\ request_count = 0 /\ error_count = 0
  /\ active_sessions = EmptyDict /\ session_close_events = EmptyDict /\ events_set = {}
  /\ conn = [c \in Conns |-> NoConn]
  /\ now = 0 /\ next_check = cleanup_check_interval
  /\ zombie_sessions_force_closed = 0 /\ zombie_sessions_cleaned = 0

SseFrame == UNCHANGED <<call_vars, conc_vars, tool_vars>>

\* request.query_params.get("session_id", f"session_{len(active_sessions)+1}")
DefaultId == Cardinality(DOMAIN active_sessions) + 1

\* handle_sse up to its first await: the session and its close event are registered under
\* the id of the query, one of ids, or under the default id
Register(c, ids) ==
  /\ \E q \in ids :
       LET session_id == IF q = 0 THEN DefaultId ELSE q
       IN /\ active_sessions' = Put(active_sessions, session_id, NewSession(now))
          /\ session_close_events' = Put(session_close_events, session_id, c)
          /\ conn' = [conn EXCEPT ![c] = [pc |-> "waiting", session_id |-> session_id,
                                          since |-> now,
                                          close_in_done |-> FALSE]]
  /\ UNCHANGED <<events_set, now, next_check, zombie_sessions_force_closed,
                 zombie_sessions_cleaned>>
  /\ SseFrame

\* a client opens connection c
SseOpen(c) ==
  /\ conn[c].pc = "none"
  /\ \A b \in Conns : b < c => conn[b].pc # "none"
  /\ Register(c, OpenIds)

\* a client opens connection c and leaves the session id to the server
SseOpenDefault(c) ==
  /\ conn[c].pc = "none"
  /\ \A b \in Conns : b < c => conn[b].pc # "none"
  /\ Register(c, {0})

\* a client opens a connection after connection c has ended and leaves the session id to
\* the server; the connection is called c again
SseReopen(c) ==
  /\ conn[c].pc = "closed"
  /\ Register(c, {0})

\* if close_task in done: active_sessions[session_id]["force_closed"] = True; a missing
\* entry raises KeyError, which the handler of handle_sse only logs
MarkForceClosed(session_id) ==
  IF session_id \in DOMAIN active_sessions
  THEN [active_sessions EXCEPT ![session_id].force_closed = TRUE]
  ELSE active_sessions

\* asyncio.wait returns: the server task has ended, the close event has been set, or both;
\* with a task still pending the coroutine awaits its cancellation before it goes on
SseWake(c) ==
  /\ conn[c].pc = "waiting"
  /\ \E server_done \in BOOLEAN, close_done \in BOOLEAN :
       /\ server_done \/ close_done
       /\ close_done => c \in events_set
       /\ IF server_done /\ close_done
          THEN /\ active_sessions' = MarkForceClosed(conn[c].session_id)
               /\ conn' = [conn EXCEPT ![c].pc = "exiting", ![c].close_in_done = TRUE]
          ELSE /\ active_sessions' = active_sessions
               /\ conn' = [conn EXCEPT ![c].pc = "cancelling", ![c].close_in_done = close_done]
  /\ UNCHANGED <<session_close_events, events_set, now, next_check,
                 zombie_sessions_force_closed, zombie_sessions_cleaned>>
  /\ SseFrame

\* the pending task is cancelled; the force-closed session is marked
SseMark(c) ==
  /\ conn[c].pc = "cancelling"
  /\ active_sessions' = IF conn[c].close_in_done
                        THEN MarkForceClosed(conn[c].session_id) ELSE active_sessions
  /\ conn' = [conn EXCEPT ![c].pc = "exiting"]
  /\ UNCHANGED <<session_close_events, events_set, now, next_check,
                 zombie_sessions_force_closed, zombie_sessions_cleaned>>
  /\ SseFrame

\* the transport raises while the connection is up
SseError(c) ==
  /\ conn[c].pc = "waiting"
  /\ conn' = [conn EXCEPT ![c].pc = "exiting"]
  /\ UNCHANGED <<active_sessions, session_close_events, events_set, now, next_check,
                 zombie_sessions_force_closed, zombie_sessions_cleaned>>
  /\ SseFrame

\* if session_id in session_close_events: del session_close_events[session_id]
MutKeepEvent(session_id) == session_close_events
RemoveEvent(session_id) == Del(session_close_events, session_id)

\* finally: the entry and the close event under this connection's session id are removed;
\* the frame of the connection and its own close event are gone
SseFinally(c) ==
  /\ conn[c].pc = "exiting"
  /\ LET session_id == conn[c].session_id
         tracked == session_id \in DOMAIN active_sessions
     IN /\ zombie_sessions_cleaned' =
             IF tracked /\ ~active_sessions[session_id].initialized
                        /\ now - active_sessions[session_id].start_time > 10
             THEN zombie_sessions_cleaned + 1 ELSE zombie_sessions_cleaned
        /\ active_sessions' = Del(active_sessions, session_id)
        /\ session_close_events' = RemoveEvent(session_id)
  /\ conn' = [conn EXCEPT ![c] = [NoConn EXCEPT !.pc = "closed"]]
  /\ events_set' = events_set \ {c}
  /\ UNCHANGED <<now, next_check, zombie_sessions_force_closed>>
  /\ SseFrame

\* _tracked_handle_post_message: a POST naming a tracked session marks it initialized
PostMessage ==
  \E q \in QueryIds :
    /\ q \in DOMAIN active_sessions => active_sessions[q].requests < MaxRequests
    /\ active_sessions' =
         IF q \in DOMAIN active_sessions
         THEN [active_sessions EXCEPT ![q].initialized = TRUE,
                                      ![q].requests = active_sessions[q].requests + 1]
         ELSE active_sessions
    /\ UNCHANGED <<session_close_events, events_set, conn, now, next_check,
                   zombie_sessions_force_closed, zombie_sessions_cleaned>>
    /\ SseFrame

\* one check interval passes
Elapse ==
  /\ now' = now + cleanup_check_interval
  /\ UNCHANGED <<active_sessions, session_close_events, events_set, conn, next_check,
                 zombie_sessions_force_closed, zombie_sessions_cleaned>>
  /\ SseFrame

\* time passes
Tick ==
  /\ now < MaxTicks * cleanup_check_interval
  /\ Elapse

\* time passes, for longer
LateTick ==
  /\ now < MaxLateTicks * cleanup_check_interval
  /\ Elapse

\* if not info["initialized"]: ... if duration > initialization_timeout_seconds
MutIgnoreInitialized(info, t) == t - info.start_time > initialization_timeout_seconds
IsZombie(info, t) ==
  ~info.initialized /\ t - info.start_time > initialization_timeout_seconds

\* one pass of zombie_session_cleanup_task, after its sleep
ZombiePass ==
  /\ now >= next_check
  /\ LET zombies_to_close ==
           {s \in DOMAIN active_sessions : IsZombie(active_sessions[s], now)}
         signalled == zombies_to_close \cap DOMAIN session_close_events
     IN /\ events_set' = events_set \cup {session_close_events[s] : s \in signalled}
        /\ zombie_sessions_force_closed' = zombie_sessions_force_closed + Cardinality(signalled)
  /\ next_check' = now + cleanup_check_interval
  /\ UNCHANGED <<active_sessions, session_close_events, conn, now, zombie_sessions_cleaned>>
  /\ SseFrame

NextSse ==
  \/ \E c \in Conns : SseOpen(c) \/ SseWake(c) \/ SseMark(c) \/ SseError(c) \/ SseFinally(c)
  \/ PostMessage \/ Tick \/ ZombiePass

SpecSse == InitSse /\ [][NextSse]_vars

\* the same server, with clients that all leave the session id to the server and connect
\* again after their connections have ended
NextReconnect ==
  \/ \E c \in Conns :
       \/ SseOpenDefault(c) \/ SseReopen(c)
       \/ SseWake(c) \/ SseMark(c) \/ SseError(c) \/ SseFinally(c)
  \/ PostMessage \/ LateTick \/ ZombiePass

SpecReconnect == InitSse /\ [][NextReconnect]_vars

\* asyncio.wait of connection c returns because its close event has been set
SseWakeOnClose(c) == c \in events_set /\ SseWake(c)

\* the event loop keeps running what is ready: the clock advances, the cleanup task started
\* by lifespan runs a pass after every sleep, and a coroutine of handle_sse goes on once its
\* close event is set; clients are not obliged to connect, post or disconnect
SseFairness ==
  /\ WF_vars(LateTick) /\ WF_vars(ZombiePass)
  /\ \A c \in Conns :
       WF_vars(SseWakeOnClose(c)) /\ WF_vars(SseMark(c)) /\ WF_vars(SseFinally(c))

SpecReconnectFair == SpecReconnect /\ SseFairness

\* the sessions the cleanup may signal: tracked, not initialized, open for longer than the
\* timeout now
Overdue ==
  {s \in DOMAIN active_sessions :
     /\ active_sessions[s].initialized = FALSE
     /\ now - active_sessions[s].start_time > initialization_timeout_seconds}

\* C20: every close event the cleanup task sets is the registered event of a session that is
\* in active_sessions, is not initialized and has been open for more than
\* initialization_timeout_seconds at that moment, and the task counts no more force-closes
\* than there are such sessions; no event is set for a session marked initialized
C20_OnlyOverdueSignalled ==
  [][/\ \A e \in events_set' \ events_set :
          \E s \in Overdue : s \in DOMAIN session_close_events /\ session_close_events[s] = e
     /\ zombie_sessions_force_closed' - zombie_sessions_force_closed
          <= Cardinality(Overdue)
     /\ \A s \in DOMAIN active_sessions :
          /\ active_sessions[s].initialized
          /\ s \in DOMAIN session_close_events
          /\ session_close_events[s] \notin events_set
          => session_close_events[s] \notin events_set']_vars

\* one session has been signalled while another, initialized and open as long, has not
C20_Witness ==
  /\ DOMAIN active_sessions = {1, 2}
  /\ active_sessions[1].initialized /\ ~active_sessions[2].initialized
  /\ now - active_sessions[1].start_time > initialization_timeout_seconds
  /\ session_close_events[2] \in events_set
  /\ session_close_events[1] \notin events_set
  /\ zombie_sessions_force_closed = 1

\* ------------------------------------------------------------- claims: the end of handle_sse
\* handle_sse of connection c ends in this step
Ends(c) == conn[c].pc = "exiting" /\ conn'[c].pc = "closed"

\* C22: when handle_sse ends, whichever way it came there (the server task ended, the close
\* event was set, the transport raised), the session id it registered is a key of neither
\* active_sessions nor session_close_events
C22_UnregisteredAtEnd ==
  [][\A c \in Conns :
       Ends(c) => /\ conn[c].session_id \notin DOMAIN active_sessions'
                  /\ conn[c].session_id \notin DOMAIN session_close_events']_vars

\* a force-closed connection has ended and another is still registered
C22_Witness ==
  /\ conn[1].pc = "closed" /\ zombie_sessions_force_closed = 1 /\ zombie_sessions_cleaned = 1
  /\ conn[2].pc = "waiting" /\ DOMAIN active_sessions = {conn[2].session_id}
  /\ 2 \notin events_set

\* ------------------------------------------------------------- claims: POST /messages
\* a step of _tracked_handle_post_message that changes the tracking
PostStep == conn' = conn /\ active_sessions' # active_sessions

\* C23: a POST naming a key of active_sessions sets that entry's initialized flag and adds
\* one to its requests, and changes no other entry; any other POST changes nothing; and a
\* session marked initialized stays so for as long as its id is a key of active_sessions
C23_InitializedStays ==
  [][/\ PostStep =>
          \E q \in DOMAIN active_sessions :
            active_sessions' =
              [active_sessions EXCEPT ![q].initialized = TRUE,
                                      ![q].requests = active_sessions[q].requests + 1]
     /\ \A s \in DOMAIN active_sessions \cap DOMAIN active_sessions' :
          active_sessions[s].initialized => active_sessions'[s].initialized]_vars

\* ------------------------------------------------------------- claims: the counters
\* (request_count - error_count) / request_count * 100, as /metrics reports it
SuccessRate == ((request_count - error_count) * 100) \div request_count

\* C24: in the HTTP server no more errors than requests have been counted, so the success
\* rate of /metrics is not negative
C24_ErrorsWithinRequests ==
  server = "http" =>
    /\ error_count <= request_count
    /\ request_count > 0 => SuccessRate >= 0

\* ------------------------------------------------------------- claims: session ids
\* connection c is open: handle_sse has registered it and has not reached the end
Open(c) == conn[c].pc \in {"waiting", "cancelling", "exiting"}

\* C25: every open connection has its own entry in active_sessions and its own close event
\* in session_close_events, and no two open connections have the same session id, when
\* every id defaults to session_{len(active_sessions)+1}
C25_OwnSessionId ==
  \A c \in Conns :
    Open(c) =>
      /\ conn[c].session_id \in DOMAIN active_sessions
      /\ conn[c].session_id \in DOMAIN session_close_events
      /\ session_close_events[conn[c].session_id] = c
      /\ \A d \in Conns \ {c} : Open(d) => conn[d].session_id # conn[c].session_id

\* ------------------------------------------------------------- claims: counting force-closes
\* C26: a pass of the cleanup task counts a force-close only for a close event it newly
\* sets: a session whose event is already set is not counted again
C26_CountedOnce ==
  [][zombie_sessions_force_closed' - zombie_sessions_force_closed
       <= Cardinality(events_set' \ events_set)]_vars

\* ------------------------------------------------------------- claims: the watchdog
\* the session of connection c has not been marked initialized
Uninitialized(c) ==
  conn[c].session_id \in DOMAIN active_sessions
    => ~active_sessions[conn[c].session_id].initialized

\* connection c is waiting and has been open, uninitialized, for longer than the timeout
Stale(c) ==
  /\ conn[c].pc = "waiting" /\ Uninitialized(c)
  /\ now - conn[c].since > initialization_timeout_seconds

\* C21: under fair scheduling a connection that stays uninitialized for longer than
\* initialization_timeout_seconds eventually has its close event set, and a connection whose
\* close event is set eventually ends
C21_ZombieEventuallyClosed ==
  \A c \in Conns :
    /\ Stale(c) ~> (c \in events_set \/ ~Stale(c))
    /\ (c \in events_set /\ Open(c)) ~>
         (conn[c].pc = "closed" \/ conn[c].pc = "none")

\* ------------------------------------------------------------- claims: the strategy
\* the stages of the current call that extracted a page
PageSteps == {j \in 1..Len(steps) : steps[j] \in {"ocr_page", "read_page"}}

\* C27: the strategy of a call on a PDF is a function of the whole document and not of the
\* page specification: every page is extracted with recognition when all pages of the
\* document are blank and from the text layer otherwise, whatever pages the call selects;
\* so a document with a page of text is read from the text layer even when every selected
\* page is blank.
C27_StrategyFromAllPages ==
  /\ \A j \in PageSteps :
       steps[j] = IF is_scanned_pdf(doc) THEN "ocr_page" ELSE "read_page"
  /\ (\E i \in 1..Len(doc.pages) : ~Blank(doc.pages[i]))
       => \A j \in 1..Len(extracted_text) :
            extracted_text[j][4] = doc.pages[selected_pages[j] + 1]

\* of a document with a page without text layer and a page of text, the call selects the
\* page without text layer alone and reads it from the text layer
C27_Witness ==
  /\ pc = "done" /\ doc.pages = <<"", "Hello">> /\ pages = Str(<<"1">>)
  /\ selected_pages = <<0>> /\ "read_page" \in SetOf(steps)
  /\ outcome = Return(<<"Page ", "1", ":\n", "">>)

\* ------------------------------------------------------------- claims: the fallback
\* a non-empty string of whitespace and commas
OnlySeparators(s) == s # <<>> /\ \A i \in 1..Len(s) : s[i] \in {" ", ","}

\* no token of the page specification names a page of a document of n pages
NoTokenSurvives(o, n) ==
  \A m \in IntTokens(o.str) : ~(1 <= m /\ m <= n) /\ ~(0 - n <= m /\ m <= 0 - 1)

\* C28: parse_pages falls back to all pages only for None and "": a non-empty page
\* specification in which no token survives, such as one of whitespace and commas only,
\* gives the empty list, and when a non-empty specification gives every page, each page
\* is named by one of its tokens.
C28_FallbackOnlyWhenAbsent ==
  (Parsed /\ Truthy(pages))
    => /\ NoTokenSurvives(pages, total_pages) => parsed = [exc |-> "none", pages |-> <<>>]
       /\ OnlySeparators(pages.str) => parsed = [exc |-> "none", pages |-> <<>>]
       /\ (total_pages > 0 /\ parsed.pages = Range(total_pages))
            => \A k \in 0..(total_pages - 1) :
                 \E m \in IntTokens(pages.str) : m = k + 1 \/ m = k - total_pages

\* " , " of a document of three pages selects nothing
C28_Witness ==
  /\ Parsed /\ pages = Str(<<" ", ",", " ">>) /\ total_pages = 3
  /\ parsed = [exc |-> "none", pages |-> <<>>]
====
